---- MODULE Spec2Model ----
(***************************************************************************)
(* Model of the extraction-and-persistence core of the Avito rent parser:  *)
(* AvitoDatabase (SQLite table `apartments`), AvitoHTMLParser.parse_html   *)
(* with its field extractors, AvitoProcessor.process_html /                *)
(* get_recent_items, the bot (parser threads, status message, listing      *)
(* queries) and BrowserSession.safe_goto, from src/avito_processor.py,     *)
(* src/telegram-bot/bot.py and src/main.py.                                *)
(*                                                                         *)
(* Six specifications share the state: SpecRun (passes of a processor      *)
(* with storage and library faults), SpecStore (the store under saves,     *)
(* passes and reads), SpecParse (each extractor applied to one input),     *)
(* SpecPasses (two parser threads interleaving their storage calls),       *)
(* SpecBot (the bot's buttons and the end of its threads) and SpecNav (a   *)
(* safe_goto call, attempt by attempt).                                    *)
(*                                                                         *)
(* Exceptions are modelled explicitly: every modelled function returns a   *)
(* record with a `raised` flag, and a caller propagates or handles it the  *)
(* way its try/except blocks do.                                           *)
(***************************************************************************)
EXTENDS Integers, Sequences, FiniteSets, TLC

(* ------------------------------ bounds --------------------------------- *)
MaxCards  == 2   \* cards on one page
MaxClock  == 2   \* AvitoItem constructions (readings of datetime.now())
MaxId     == 3   \* values handed out by the AUTOINCREMENT key
MaxErrors == 2   \* cap on the errors counter of one processor
MaxLimit  == 2   \* largest limit passed to get_recent_items

(* ------------------------------ data ----------------------------------- *)
Links == {"", "L1", "L2"}

\* Two complete sets of extracted field values; they differ in every column.
FieldsA ==
  [title |-> "tA", price |-> "pA", bail |-> "bA", tax |-> "xA", services |-> "sA",
   address |-> "aA", desc |-> "dA", images |-> <<"iA">>]
FieldsB ==
  [title |-> "tB", price |-> "pB", bail |-> "bB", tax |-> "xB", services |-> "sB",
   address |-> "aB", desc |-> "dB", images |-> <<"iB1", "iB2">>]
\* What the field extractors find in a card that has no title element.
FieldsNoTitle == [FieldsA EXCEPT !.title = ""]

\* A card of the page: the values its field extractors yield, its link, and
\* whether one of the field extractors raises on it.
Card(fs, l, b) ==
  [title |-> fs.title, price |-> fs.price, bail |-> fs.bail, tax |-> fs.tax,
   services |-> fs.services, address |-> fs.address, desc |-> fs.desc,
   images |-> fs.images, link |-> l, bad |-> b]

Cards ==
  { Card(FieldsA, "L1", FALSE), Card(FieldsB, "L1", FALSE), Card(FieldsA, "L2", FALSE),
    Card(FieldsA, "", FALSE), Card(FieldsB, "L2", TRUE), Card(FieldsNoTitle, "L2", FALSE) }

RECURSIVE SeqsUpTo(_, _)
SeqsUpTo(S, n) ==
  IF n = 0 THEN {<<>>}
  ELSE LET shorter == SeqsUpTo(S, n - 1)
       IN  shorter \cup {Append(s, x) : s \in {t \in shorter : Len(t) = n - 1}, x \in S}

Pages == SeqsUpTo(Cards, MaxCards)

\* Pages all of whose cards become records with a link: the pages that can
\* write to the store.
StorePages ==
  SeqsUpTo({c \in Cards : ~c.bad /\ c.title # "" /\ c.link # ""}, MaxCards)

(* --------------------------- AvitoItem --------------------------------- *)
\* AvitoItem.__init__: every field at its empty default, parsed_date = now().
AvitoItem(t) ==
  [title |-> "", price |-> "", bail |-> "", tax |-> "", services |-> "",
   address |-> "", desc |-> "", images |-> <<>>, link |-> "", parsed_date |-> t]

\* json.dumps / json.loads of a list of strings: the column holds text.
JsonDumps(l) == <<"json", l>>
JsonLoads(t) == t[2]

ZeroStats == [total_processed |-> 0, new_items |-> 0, existing_items |-> 0, errors |-> 0]

(* --------------------------- AvitoDatabase ----------------------------- *)
\* The table `apartments` is a set of rows; seq is the sqlite_sequence entry
\* of the AUTOINCREMENT key (the largest id ever handed out).
EmptyDb == [rows |-> {}, seq |-> 0]

\* AvitoDatabase.__init__ -> init_database: CREATE TABLE / INDEX IF NOT EXISTS.
\* Nothing catches a storage error here, so it propagates to the constructor.
init_database(db, fault) ==
  IF fault THEN [raised |-> TRUE, db |-> db]
  ELSE [raised |-> FALSE, db |-> db]

NewRow(id, item) ==
  [id |-> id, title |-> item.title, price |-> item.price, bail |-> item.bail,
   tax |-> item.tax, services |-> item.services, address |-> item.address,
   desc |-> item.desc, images |-> JsonDumps(item.images), link |-> item.link,
   parsed_date |-> item.parsed_date]

\* Mutant: INSERT OR IGNORE, the row already holding the link is kept.
InsertOrIgnore(db, item) ==
  IF \E r \in db.rows : r.link = item.link THEN db
  ELSE [rows |-> db.rows \cup {NewRow(db.seq + 1, item)}, seq |-> db.seq + 1]

\* Mutant: plain INSERT into a table whose link column is not UNIQUE.
InsertNoUnique(db, item) ==
  [rows |-> db.rows \cup {NewRow(db.seq + 1, item)}, seq |-> db.seq + 1]

\* Mutant: an UPDATE of the row holding the link, which keeps its id.
UpdateInPlace(db, item) ==
  IF \E r \in db.rows : r.link = item.link
  THEN [rows |-> {r \in db.rows : r.link # item.link} \cup
                   {NewRow((CHOOSE r \in db.rows : r.link = item.link).id, item)},
        seq  |-> db.seq]
  ELSE [rows |-> db.rows \cup {NewRow(db.seq + 1, item)}, seq |-> db.seq + 1]

\* INSERT OR REPLACE on a table with link UNIQUE and id AUTOINCREMENT: the row
\* holding the same link is deleted, the new row takes the next id.
InsertOrReplace(db, item) ==
  [rows |-> {r \in db.rows : r.link # item.link} \cup {NewRow(db.seq + 1, item)},
   seq  |-> db.seq + 1]

\* Mutant: save_apartment without its try/except.
save_apartment_noexcept(db, item, fault) ==
  IF fault THEN [raised |-> TRUE, value |-> FALSE, db |-> db]
  ELSE [raised |-> FALSE, value |-> TRUE, db |-> InsertOrReplace(db, item)]

\* AvitoDatabase.save_apartment.  A storage error (connect, execute or commit)
\* is caught by `except Exception` and reported as False; an uncommitted
\* statement is rolled back, so the table is unchanged.
save_apartment(db, item, fault) ==
  IF fault THEN [raised |-> FALSE, value |-> FALSE, db |-> db]
  ELSE [raised |-> FALSE, value |-> TRUE, db |-> InsertOrReplace(db, item)]

\* AvitoDatabase.apartment_exists: no try/except, a storage error propagates.
apartment_exists(db, link, fault) ==
  IF fault THEN [raised |-> TRUE, value |-> FALSE]
  ELSE [raised |-> FALSE, value |-> \E r \in db.rows : r.link = link]

(* ------------------------------- text ---------------------------------- *)
\* A text is a sequence of characters (a word that no test looks into is one
\* entry).  White is what str.strip() and the regex class \s remove.
White == {" ", "\t", "\n", "nbsp"}

StartsWith(s, p) == Len(s) >= Len(p) /\ SubSeq(s, 1, Len(p)) = p

Contains(s, p) == \E i \in 1..(Len(s) - Len(p) + 1) : SubSeq(s, i, i + Len(p) - 1) = p

RECURSIVE LStrip(_)
LStrip(s) == IF s # <<>> /\ Head(s) \in White THEN LStrip(Tail(s)) ELSE s

RECURSIVE RStrip(_)
RStrip(s) == IF s # <<>> /\ s[Len(s)] \in White THEN RStrip(SubSeq(s, 1, Len(s) - 1)) ELSE s

\* str.strip()
Strip(s) == RStrip(LStrip(s))

\* re.sub(r'\s+', ' ', s): every maximal run of whitespace becomes one space.
RECURSIVE CollapseWs(_, _, _)
CollapseWs(s, i, acc) ==
  IF i > Len(s) THEN acc
  ELSE IF s[i] \notin White THEN CollapseWs(s, i + 1, Append(acc, s[i]))
  ELSE IF i > 1 /\ s[i - 1] \in White THEN CollapseWs(s, i + 1, acc)
  ELSE CollapseWs(s, i + 1, Append(acc, " "))

\* str.lower() on the letters the currency word is written with.  The
\* Cyrillic letters er, u, be are written "r", "u", "b" (capitals "R", "U",
\* "B") and the rouble sign is written "RUB_SIGN".
LowerChar(c) ==
  CASE c = "R" -> "r" [] c = "U" -> "u" [] c = "B" -> "b" [] OTHER -> c

Lower(s) == [i \in DOMAIN s |-> LowerChar(s[i])]

\* What select_one(selector) finds in a card: no element, or the first
\* matching element with its text.
NoElement == [found |-> FALSE, text |-> <<>>]
Element(text) == [found |-> TRUE, text |-> text]

\* element.get_text(strip=True) of an element holding one text node.
get_text_strip(element) == Strip(element.text)

(* --------------------------- AvitoHTMLParser --------------------------- *)
price_selectors ==
  <<"[data-marker=item-price]", ".price-price", ".iva-item-priceStep", ".js-item-price">>

\* Mutant: the text of the first matched element is returned, marked or not.
RECURSIVE parse_price_first(_, _)
parse_price_first(els, k) ==
  IF k > Len(price_selectors) THEN <<>>
  ELSE IF els[price_selectors[k]].found
       THEN CollapseWs(get_text_strip(els[price_selectors[k]]), 1, <<>>)
       ELSE parse_price_first(els, k + 1)

\* parse_price: els maps each selector to what select_one finds; k is the
\* position in the selector list.  A text is accepted only with a currency
\* marker, otherwise the loop goes on to the next selector.
RECURSIVE parse_price(_, _)
parse_price(els, k) ==
  IF k > Len(price_selectors) THEN <<>>
  ELSE IF els[price_selectors[k]].found
       THEN LET price_text == CollapseWs(get_text_strip(els[price_selectors[k]]), 1, <<>>)
            IN  IF Contains(price_text, <<"RUB_SIGN">>) \/
                   Contains(Lower(price_text), <<"r", "u", "b">>)
                THEN price_text
                ELSE parse_price(els, k + 1)
       ELSE parse_price(els, k + 1)

description_selectors ==
  <<"[data-marker=item-specific-params]", ".iva-item-description", ".item-description",
    ".description-text">>

\* desc[:500] keeps this many characters.
DescLimit == 500

\* Mutant: the description is cut at the limit without the marker being
\* subject to it (the whole text is returned when it is short of limit + 3).
RECURSIVE parse_description_cutall(_, _)
parse_description_cutall(els, k) ==
  IF k > Len(description_selectors) THEN <<>>
  ELSE LET desc == get_text_strip(els[description_selectors[k]])
       IN  IF els[description_selectors[k]].found /\ desc # <<>>
           THEN IF Len(desc) >= DescLimit
                THEN SubSeq(desc, 1, DescLimit) \o <<".", ".", ".">>
                ELSE desc
           ELSE parse_description_cutall(els, k + 1)

\* parse_description: the first selector whose element has non-empty text;
\* desc[:500] + "..." if len(desc) > 500 else desc.
RECURSIVE parse_description(_, _)
parse_description(els, k) ==
  IF k > Len(description_selectors) THEN <<>>
  ELSE LET desc == get_text_strip(els[description_selectors[k]])
       IN  IF els[description_selectors[k]].found /\ desc # <<>>
           THEN IF Len(desc) > DescLimit
                THEN SubSeq(desc, 1, DescLimit) \o <<".", ".", ".">>
                ELSE desc
           ELSE parse_description(els, k + 1)

carousel_selectors ==
  <<".photo-slider-list-item-r2YDC", "[data-marker*=slider-image]", ".photo-slider-item-mbNB3">>

\* len(images) >= 3 and images[:3]
ImageLimit == 3

Https == <<"h", "t", "t", "p", "s", ":">>
AvitoRoot == Https \o <<"/", "/", "www.avito.ru">>
SliderImage == <<"slider-image">>
SliderImagePrefix == <<"slider-image", "/image-">>

\* str.replace(old, ''): every occurrence of old is removed, left to right.
RECURSIVE Remove(_, _)
Remove(s, old) ==
  IF Len(s) < Len(old) THEN s
  ELSE IF StartsWith(s, old) THEN Remove(SubSeq(s, Len(old) + 1, Len(s)), old)
  ELSE <<Head(s)>> \o Remove(Tail(s), old)

InList(x, list) == \E i \in DOMAIN list : list[i] = x

\* A carousel element of a card: its classes, its data-marker attribute (empty
\* when absent) and its first inner img (src and data-src empty when absent).
NoImg == [found |-> FALSE, src |-> <<>>, data_src |-> <<>>]
Img(src, data_src) == [found |-> TRUE, src |-> src, data_src |-> data_src]
Slide(classes, marker, img) == [classes |-> classes, marker |-> marker, img |-> img]

\* item_element.select(selector) for a carousel selector, in document order.
select_carousel(card, k) ==
  SelectSeq(card.slides,
            LAMBDA s : IF k = 2 THEN Contains(s.marker, SliderImage)
                       ELSE carousel_selectors[k] \in s.classes)

\* Lines 343-368: the body of the loop over the carousel items of one selector.
\* limit is the number of images at which the loop breaks.
carousel_item(images, item, limit) ==
  IF Len(images) >= limit THEN images
  ELSE IF item.img.found
  THEN LET src0 == IF item.img.src # <<>> THEN item.img.src ELSE item.img.data_src
           src  == IF StartsWith(src0, <<"/", "/">>) THEN Https \o src0
                   ELSE IF StartsWith(src0, <<"/">>) THEN AvitoRoot \o src0
                   ELSE src0
       IN  IF src0 # <<>> /\ StartsWith(src, <<"h", "t", "t", "p">>) /\ ~InList(src, images)
           THEN Append(images, src)
           ELSE images
  ELSE IF Contains(item.marker, SliderImagePrefix)
  THEN LET src == Remove(item.marker, SliderImagePrefix)
       IN  IF src # <<>> /\ ~InList(src, images)
           THEN Append(images, IF StartsWith(src, <<"/", "/">>) THEN Https \o src ELSE src)
           ELSE images
  ELSE images

RECURSIVE carousel_items(_, _, _, _)
carousel_items(images, items, i, limit) ==
  IF i > Len(items) THEN images
  ELSE carousel_items(carousel_item(images, items[i], limit), items, i + 1, limit)

RECURSIVE carousel_loop(_, _, _, _)
carousel_loop(images, card, k, limit) ==
  IF k > Len(carousel_selectors) THEN images
  ELSE carousel_loop(carousel_items(images, select_carousel(card, k), 1, limit),
                     card, k + 1, limit)

\* item_element.select('img[src*="avito.st"]'): the img elements of the card
\* in document order, the carousel's inner imgs first, then the others.
select_avito_imgs(card) ==
  LET inner == SelectSeq(card.slides, LAMBDA s : s.img.found)
  IN  SelectSeq([i \in DOMAIN inner |-> inner[i].img.src] \o card.others,
                LAMBDA src : Contains(src, <<"avito.st">>))

\* Lines 373-380: the fallback loop.
RECURSIVE fallback_imgs(_, _, _, _)
fallback_imgs(images, srcs, i, limit) ==
  IF i > Len(srcs) \/ Len(images) >= limit THEN images
  ELSE fallback_imgs(
         IF srcs[i] # <<>> /\ ~InList(srcs[i], images)
         THEN Append(images, IF StartsWith(srcs[i], <<"/", "/">>) THEN Https \o srcs[i]
                             ELSE srcs[i])
         ELSE images,
         srcs, i + 1, limit)

\* Mutant: parse_images without the two length checks and the final slice.
parse_images_nolimit(card) ==
  LET images == carousel_loop(<<>>, card, 1, Len(card.slides) * Len(carousel_selectors) + 1)
  IN  IF images = <<>>
      THEN fallback_imgs(images, select_avito_imgs(card), 1, Len(card.others) + Len(card.slides) + 1)
      ELSE images

\* parse_images.
parse_images(card) ==
  LET images == carousel_loop(<<>>, card, 1, ImageLimit)
      all    == IF images = <<>>
                THEN fallback_imgs(images, select_avito_imgs(card), 1, ImageLimit)
                ELSE images
  IN  SubSeq(all, 1, IF Len(all) < ImageLimit THEN Len(all) ELSE ImageLimit)

(* The text patterns of parse_bail, parse_tax and parse_services.  The text of
   a card (item_element.get_text()) is a sequence of characters in which the
   words the patterns look for are single entries, written in Latin letters:
   "komissiya", "voznagrazhdenie", "komissii", "zalog", "depozit",
   "obespechenie", "ZhKU", "kommunalka", "kom", "uslugi", "vklyucheny",
   "vklyuchena". *)
Digits == {"0", "1", "5"}

\* re.IGNORECASE on the entries of a text.
IgnoreCase(c) ==
  CASE c = "Komissiya" -> "komissiya" [] c = "Zalog" -> "zalog"
    [] c = "ZhKU" -> "zhku" [] OTHER -> LowerChar(c)

MinOf(S) == CHOOSE x \in S : \A y \in S : x <= y

\* (\d+%) tried at position j: the index of its last character, 0 if it does
\* not match there.
RECURSIVE PercentGroup(_, _)
PercentGroup(s, j) ==
  IF j > Len(s) \/ s[j] \notin Digits THEN 0
  ELSE IF j < Len(s) /\ s[j + 1] = "%" THEN j + 1
  ELSE IF j < Len(s) /\ s[j + 1] \in Digits THEN PercentGroup(s, j + 1)
  ELSE 0

\* (\d[\d\s]*?RUB_SIGN) tried at position j.
RoubleGroup(s, j) ==
  IF j > Len(s) \/ s[j] \notin Digits THEN 0
  ELSE LET ends == {e \in (j + 1)..Len(s) :
                      /\ s[e] = "RUB_SIGN"
                      /\ \A m \in (j + 1)..(e - 1) : s[m] \in Digits \cup White}
       IN  IF ends = {} THEN 0 ELSE MinOf(ends)

\* The last part of a pattern tried at position j of s: the index of its last
\* character, 0 if it does not match there.
PatternEnd(tail, s, j) ==
  CASE tail = "percent" -> PercentGroup(s, j)
    [] tail = "roubles" -> RoubleGroup(s, j)
    [] OTHER -> IF j <= Len(s) /\ s[j] = tail THEN j ELSE 0

\* re.search(keyword [^.]*? tail, text, re.IGNORECASE): the leftmost keyword
\* from which the tail can be reached without crossing a full stop, and the
\* nearest such tail; group is what the tail matched.
re_search(text, keyword, tail) ==
  LET s      == [i \in DOMAIN text |-> IgnoreCase(text[i])]
      kw     == [i \in DOMAIN keyword |-> IgnoreCase(keyword[i])]
      ends(i) == {j \in (i + Len(kw))..Len(s) :
                    /\ PatternEnd(tail, s, j) # 0
                    /\ \A m \in (i + Len(kw))..(j - 1) : s[m] # "."}
      starts == {i \in 1..Len(s) : StartsWith(SubSeq(s, i, Len(s)), kw) /\ ends(i) # {}}
  IN  IF starts = {} THEN [match |-> FALSE, group |-> <<>>]
      ELSE LET i == MinOf(starts)
               j == MinOf(ends(i))
           IN  [match |-> TRUE, group |-> SubSeq(text, j, PatternEnd(tail, s, j))]

\* parse_bail: every pattern has group 1.
parse_bail(text) ==
  LET m1 == re_search(text, <<"zalog">>, "roubles")
      m2 == re_search(text, <<"depozit">>, "roubles")
      m3 == re_search(text, <<"obespechenie">>, "roubles")
  IN  IF m1.match THEN <<"Zalog", " ">> \o m1.group
      ELSE IF m2.match THEN <<"Zalog", " ">> \o m2.group
      ELSE IF m3.match THEN <<"Zalog", " ">> \o m3.group
      ELSE <<>>

\* parse_tax: the third pattern, r'% komissii', has no group, so
\* match.group(1) raises IndexError when it is the pattern that matches.
parse_tax(text) ==
  LET m1 == re_search(text, <<"komissiya">>, "percent")
      m2 == re_search(text, <<"voznagrazhdenie">>, "percent")
      s  == [i \in DOMAIN text |-> IgnoreCase(text[i])]
  IN  IF m1.match THEN [raised |-> FALSE, value |-> <<"Komissiya", " ">> \o m1.group]
      ELSE IF m2.match THEN [raised |-> FALSE, value |-> <<"Komissiya", " ">> \o m2.group]
      ELSE IF Contains(s, <<"%", " ", "komissii">>) THEN [raised |-> TRUE, value |-> <<>>]
      ELSE [raised |-> FALSE, value |-> <<>>]

\* parse_services: no pattern has a group and none is asked for.
parse_services(text) ==
  IF \/ re_search(text, <<"ZhKU">>, "vklyucheny").match
     \/ re_search(text, <<"kommunalka">>, "vklyuchena").match
     \/ re_search(text, <<"kom", ".", " ", "uslugi">>, "vklyucheny").match
  THEN <<"ZhKU", " ", "vklyucheny">>
  ELSE <<>>

\* Mutant: parse_single_item without its try/except.
parse_single_item_noexcept(card, t) ==
  [raised |-> card.bad, none |-> FALSE,
   item |-> [title |-> card.title, price |-> card.price, bail |-> card.bail,
             tax |-> card.tax, services |-> card.services,
             address |-> card.address, desc |-> card.desc,
             images |-> card.images, link |-> card.link, parsed_date |-> t]]

\* parse_single_item: the AvitoItem is built before the try block; a raising
\* field extractor is caught and the card yields None.  The item is
\* [none |-> TRUE] for None.
parse_single_item(card, t) ==
  IF card.bad THEN [raised |-> FALSE, none |-> TRUE, item |-> AvitoItem(t)]
  ELSE [raised |-> FALSE, none |-> FALSE,
        item |-> [title |-> card.title, price |-> card.price, bail |-> card.bail,
                  tax |-> card.tax, services |-> card.services,
                  address |-> card.address, desc |-> card.desc,
                  images |-> card.images, link |-> card.link, parsed_date |-> t]]

\* Mutant: the loop of parse_html without the test of the title.
RECURSIVE parse_cards_anytitle(_, _, _, _)
parse_cards_anytitle(page, i, t, items) ==
  IF i > Len(page) THEN [raised |-> FALSE, items |-> items]
  ELSE LET r == parse_single_item(page[i], t + i - 1)
       IN  IF r.raised THEN [raised |-> TRUE, items |-> items]
           ELSE IF ~r.none
                THEN parse_cards_anytitle(page, i + 1, t, Append(items, r.item))
                ELSE parse_cards_anytitle(page, i + 1, t, items)

\* Mutant: the loop of parse_html ends at the first card that yields None.
RECURSIVE parse_cards_stop(_, _, _, _)
parse_cards_stop(page, i, t, items) ==
  IF i > Len(page) THEN [raised |-> FALSE, items |-> items]
  ELSE LET r == parse_single_item(page[i], t + i - 1)
       IN  IF r.raised THEN [raised |-> TRUE, items |-> items]
           ELSE IF r.none THEN [raised |-> FALSE, items |-> items]
           ELSE IF r.item.title # ""
                THEN parse_cards_stop(page, i + 1, t, Append(items, r.item))
                ELSE parse_cards_stop(page, i + 1, t, items)

\* The loop of parse_html over the cards of the matching selector; card i is
\* parsed at clock value t + i - 1.  A raise of parse_single_item would leave
\* the loop (nothing in parse_html catches it).
RECURSIVE parse_cards(_, _, _, _)
parse_cards(page, i, t, items) ==
  IF i > Len(page) THEN [raised |-> FALSE, items |-> items]
  ELSE LET r == parse_single_item(page[i], t + i - 1)
       IN  IF r.raised THEN [raised |-> TRUE, items |-> items]
           ELSE IF ~r.none /\ r.item.title # ""
                THEN parse_cards(page, i + 1, t, Append(items, r.item))
                ELSE parse_cards(page, i + 1, t, items)

\* parse_html.  pfault: BeautifulSoup(html, 'html.parser') or soup.select
\* raises (both calls are outside any try block).
parse_html(page, pfault, t) ==
  IF pfault THEN [raised |-> TRUE, items |-> <<>>]
  ELSE parse_cards(page, 1, t, <<>>)

item_selectors ==
  <<"[data-marker=item]", ".iva-item-root", ".items-items-kAJAg .iva-item-root",
    ".item-item", ".js-catalog-item">>

\* An element of the document: the item selectors it matches, what
\* parse_title, parse_address and parse_link yield on it, its text, the
\* elements its price and description selectors find, its carousel and its
\* other img elements.
ItemElement(matches, title, link, text, price, desc, slides, others) ==
  [matches |-> matches, title |-> title, address |-> "aA", link |-> link, text |-> text,
   price |-> price, desc |-> desc, slides |-> slides, others |-> others]

\* The field extractors of parse_single_item applied to an element: the
\* values they yield and whether one of them raises.
extract_fields(el) ==
  LET tax == parse_tax(el.text)
  IN  Card([title |-> el.title, price |-> parse_price(el.price, 1),
            bail |-> parse_bail(el.text), tax |-> tax.value,
            services |-> parse_services(el.text), address |-> el.address,
            desc |-> parse_description(el.desc, 1), images |-> parse_images(el)],
           el.link, tax.raised)

\* self.soup.select(selector), in document order.
select(doc, selector) == SelectSeq(doc, LAMBDA el : selector \in el.matches)

\* Mutant: the loop over the selectors without its break.
RECURSIVE item_elements_nobreak(_, _)
item_elements_nobreak(doc, k) ==
  IF k > Len(item_selectors) THEN <<>>
  ELSE select(doc, item_selectors[k]) \o item_elements_nobreak(doc, k + 1)

\* Lines 137-139 and 145: the elements of the first selector, from position
\* k of the list, that matches anything; none when no selector matches.
RECURSIVE item_elements(_, _)
item_elements(doc, k) ==
  IF k > Len(item_selectors) THEN <<>>
  ELSE IF select(doc, item_selectors[k]) # <<>> THEN select(doc, item_selectors[k])
  ELSE item_elements(doc, k + 1)

\* parse_html from the document: the cards are selected, then each is parsed.
parse_html_doc(doc, pfault, t) ==
  LET els == item_elements(doc, 1)
  IN  parse_html([i \in DOMAIN els |-> extract_fields(els[i])], pfault, t)

(* --------------------------- AvitoProcessor ---------------------------- *)
\* Storage events that can hit the handling of one record: none, an error in
\* apartment_exists, an error in save_apartment.
RecFaults == {"none", "exists", "save"}

Bump(st, k) == [st EXCEPT ![k] = @ + 1]

\* Mutant: a failed save_apartment is not counted.
process_item_nocount(st, db, item, fault) ==
  LET st1 == Bump(st, "total_processed")
  IN  IF item.link = ""
      THEN [raised |-> FALSE, stats |-> Bump(st1, "errors"), db |-> db, tag |-> "nolink"]
      ELSE IF fault = "exists"
      THEN [raised |-> TRUE, stats |-> st1, db |-> db, tag |-> "existsfault"]
      ELSE IF \E r \in db.rows : r.link = item.link
      THEN [raised |-> FALSE, stats |-> Bump(st1, "existing_items"), db |-> db,
            tag |-> "existing"]
      ELSE IF fault = "save"
      THEN [raised |-> FALSE, stats |-> st1, db |-> db, tag |-> "savefail"]
      ELSE [raised |-> FALSE, stats |-> Bump(st1, "new_items"),
            db |-> InsertOrReplace(db, item), tag |-> "new"]

\* Mutant: every record with a link is upserted, without the existence check.
process_item_upsert(st, db, item, fault) ==
  LET st1 == Bump(st, "total_processed")
  IN  IF item.link = ""
      THEN [raised |-> FALSE, stats |-> Bump(st1, "errors"), db |-> db, tag |-> "nolink"]
      ELSE [raised |-> FALSE, stats |-> Bump(st1, "new_items"),
            db |-> InsertOrReplace(db, item), tag |-> "new"]

\* Mutant: a record whose link is stored refreshes the row before it is
\* counted as existing.
process_item_refresh(st, db, item, fault) ==
  LET st1 == Bump(st, "total_processed")
  IN  IF item.link = ""
      THEN [raised |-> FALSE, stats |-> Bump(st1, "errors"), db |-> db, tag |-> "nolink"]
      ELSE IF fault = "exists"
      THEN [raised |-> TRUE, stats |-> st1, db |-> db, tag |-> "existsfault"]
      ELSE IF \E r \in db.rows : r.link = item.link
      THEN [raised |-> FALSE, stats |-> Bump(st1, "existing_items"),
            db |-> InsertOrReplace(db, item), tag |-> "existing"]
      ELSE IF fault = "save"
      THEN [raised |-> FALSE, stats |-> Bump(st1, "errors"), db |-> db, tag |-> "savefail"]
      ELSE [raised |-> FALSE, stats |-> Bump(st1, "new_items"),
            db |-> InsertOrReplace(db, item), tag |-> "new"]

\* One iteration of the `for item in items` loop of process_html.
\* tag names the branch taken; raised means an exception left the iteration.
process_item(st, db, item, fault) ==
  LET st1 == Bump(st, "total_processed")
  IN  IF item.link = ""
      THEN [raised |-> FALSE, stats |-> Bump(st1, "errors"), db |-> db, tag |-> "nolink"]
      ELSE LET ex == apartment_exists(db, item.link, fault = "exists")
           IN  IF ex.raised
               THEN [raised |-> TRUE, stats |-> st1, db |-> db, tag |-> "existsfault"]
               ELSE IF ex.value
               THEN [raised |-> FALSE, stats |-> Bump(st1, "existing_items"), db |-> db,
                     tag |-> "existing"]
               ELSE LET sv == save_apartment(db, item, fault = "save")
                    IN  IF sv.raised
                        THEN [raised |-> TRUE, stats |-> st1, db |-> sv.db, tag |-> "savefault"]
                        ELSE IF sv.value
                        THEN [raised |-> FALSE, stats |-> Bump(st1, "new_items"),
                              db |-> sv.db, tag |-> "new"]
                        ELSE [raised |-> FALSE, stats |-> Bump(st1, "errors"),
                              db |-> sv.db, tag |-> "savefail"]

\* The whole loop: stops at the first iteration an exception leaves.
RECURSIVE run_loop(_, _, _, _, _, _)
run_loop(items, faults, i, st, db, log) ==
  IF i > Len(items) THEN [raised |-> FALSE, stats |-> st, db |-> db, log |-> log]
  ELSE LET r == process_item(st, db, items[i], faults[i])
       IN  IF r.raised
           THEN [raised |-> TRUE, stats |-> r.stats, db |-> r.db, log |-> Append(log, r.tag)]
           ELSE run_loop(items, faults, i + 1, r.stats, r.db, Append(log, r.tag))

\* Mutant: process_html without its try/except.
process_html_noexcept(st, db, page, pfault, faults, t) ==
  LET p == parse_html(page, pfault, t)
  IN  IF p.raised
      THEN [raised |-> TRUE, stats |-> st, db |-> db, items |-> <<>>,
            log |-> <<>>, parseRaised |-> TRUE]
      ELSE LET l == run_loop(p.items, faults, 1, st, db, <<>>)
           IN  [raised |-> l.raised, stats |-> l.stats, db |-> l.db,
                items |-> p.items, log |-> l.log, parseRaised |-> FALSE]

\* AvitoProcessor.process_html: the try block (parse_html, then the loop) and
\* its `except Exception` handler, which counts one error and returns
\* self.stats.  st is self.stats on entry: the method never resets it.
process_html(st, db, page, pfault, faults, t) ==
  LET p == parse_html(page, pfault, t)
  IN  IF p.raised
      THEN [raised |-> FALSE, stats |-> Bump(st, "errors"), db |-> db, items |-> <<>>,
            log |-> <<>>, parseRaised |-> TRUE]
      ELSE LET l == run_loop(p.items, faults, 1, st, db, <<>>)
           IN  IF l.raised
               THEN [raised |-> FALSE, stats |-> Bump(l.stats, "errors"), db |-> l.db,
                     items |-> p.items, log |-> l.log, parseRaised |-> FALSE]
               ELSE [raised |-> FALSE, stats |-> l.stats, db |-> l.db,
                     items |-> p.items, log |-> l.log, parseRaised |-> FALSE]

\* ORDER BY parsed_date DESC: any arrangement of the rows in which parsed_date
\* never increases (SQLite leaves the order of equal keys open).
OrderByParsedDateDesc(rows) ==
  {s \in [1..Cardinality(rows) -> rows] :
     /\ \A i, j \in DOMAIN s : i # j => s[i] # s[j]
     /\ \A i, j \in DOMAIN s : i < j => s[i].parsed_date >= s[j].parsed_date}

Summary(r) ==
  [title |-> r.title, price |-> r.price, address |-> r.address,
   images_count |-> Len(JsonLoads(r.images)), link |-> r.link,
   parsed_date |-> r.parsed_date]

\* AvitoProcessor.get_recent_items: SELECT ... ORDER BY parsed_date DESC LIMIT ?
\* ord is the arrangement the query produces; no try/except.
get_recent_items(db, limit, ord, fault) ==
  IF fault THEN [raised |-> TRUE, value |-> <<>>]
  ELSE [raised |-> FALSE,
        value |-> [i \in 1..(IF limit < Len(ord) THEN limit ELSE Len(ord)) |-> Summary(ord[i])]]

(* ------------------------------- bot ------------------------------------ *)
\* AvitoTelegramBot.get_total_objects: SELECT COUNT(*); any error gives 0.
get_total_objects(db, fault) ==
  IF fault THEN 0 ELSE Cardinality(db.rows)

\* `value or default` of Python on a text column.
Or(value, default) == IF value = "" THEN default ELSE value

\* The dict the bot builds from a row in get_recent_objects / get_object_by_id.
BotObject(r) ==
  [id |-> r.id, title |-> Or(r.title, "Bez nazvaniya"), price |-> Or(r.price, "Ne ukazana"),
   address |-> Or(r.address, "Ne ukazan"), desc |-> Or(r.desc, "Opisanie otsutstvuet"),
   images |-> r.images, link |-> r.link]

\* ORDER BY id DESC: ids are unique, so the arrangement is determined.
RECURSIVE OrderByIdDesc(_)
OrderByIdDesc(rows) ==
  IF rows = {} THEN <<>>
  ELSE LET top == CHOOSE r \in rows : \A q \in rows : q.id <= r.id
       IN  <<top>> \o OrderByIdDesc(rows \ {top})

\* AvitoTelegramBot.get_recent_objects: SELECT ... ORDER BY id DESC LIMIT ?
\* OFFSET ?; any error gives the empty list.
get_recent_objects(db, offset, limit, fault) ==
  IF fault THEN <<>>
  ELSE LET ord  == OrderByIdDesc(db.rows)
           last == IF offset + limit < Len(ord) THEN offset + limit ELSE Len(ord)
       IN  [i \in 1..(IF last > offset THEN last - offset ELSE 0) |-> BotObject(ord[offset + i])]

\* AvitoTelegramBot.get_object_by_id: SELECT ... WHERE id = ?; None when no
\* row has the id or on any error.
get_object_by_id(db, object_id, fault) ==
  IF fault \/ ~\E r \in db.rows : r.id = object_id
  THEN [none |-> TRUE, object |-> BotObject(NewRow(0, AvitoItem(0)))]
  ELSE [none |-> FALSE, object |-> BotObject(CHOOSE r \in db.rows : r.id = object_id)]

(* --------------------------- parser threads ---------------------------- *)
\* The bot starts run_parser in a new thread at every press of the parser
\* button, without looking at the threads already running: two of them.
PassIds == {"p1", "p2"}

\* A thread the bot has not started yet.  pc is the position of the pass:
\* "exists" before the apartment_exists call of record i, "upsert" between
\* that call and save_apartment, "finish" after process_html has returned,
\* "done" once run_parser has stored its result.
NoPass ==
  [pc |-> "idle", page |-> <<>>, items |-> <<>>, i |-> 1, stats |-> ZeroStats,
   alone |-> TRUE]

\* The loop of process_html moves to its next record, or process_html returns.
Advance(ps) ==
  [ps EXCEPT !.i = @ + 1, !.pc = IF ps.i + 1 > Len(ps.items) THEN "finish" ELSE "exists"]

\* One iteration of the loop of process_html up to the answer of
\* apartment_exists: the record is counted, an empty link is an error, a
\* stored link is an existing item, anything else goes on to save_apartment.
pass_exists(ps, db) ==
  LET item == ps.items[ps.i]
      st1  == Bump(ps.stats, "total_processed")
  IN  IF item.link = ""
      THEN Advance([ps EXCEPT !.stats = Bump(st1, "errors")])
      ELSE IF apartment_exists(db, item.link, FALSE).value
      THEN Advance([ps EXCEPT !.stats = Bump(st1, "existing_items")])
      ELSE [ps EXCEPT !.stats = st1, !.pc = "upsert"]

\* Mutant: the upsert of a pass on a table whose link column is not UNIQUE.
pass_upsert_nounique(ps, db) ==
  [pass |-> Advance([ps EXCEPT !.stats = Bump(@, "new_items")]),
   db   |-> InsertNoUnique(db, ps.items[ps.i])]

\* The rest of the iteration: save_apartment and the counter of its outcome.
pass_upsert(ps, db) ==
  LET sv == save_apartment(db, ps.items[ps.i], FALSE)
  IN  [pass |-> Advance([ps EXCEPT
                           !.stats = Bump(@, IF sv.value THEN "new_items" ELSE "errors")]),
       db   |-> sv.db]

\* AvitoTelegramBot.__init__.
NewBot ==
  [last_parsing_stats |-> [status |-> "not_run", total_processed |-> 0, errors |-> 0],
   objects_before_parsing |-> 0]

\* run_parser after asyncio.run(main()) has returned `result`: a dict gives
\* its status, processed and errors entries; anything else (main returns
\* None) gives 'completed' with the growth of the row count.
run_parser_result(result, total_before, total_after) ==
  IF result.dict
  THEN [status |-> result.status, total_processed |-> result.processed,
        errors |-> result.errors]
  ELSE [status |-> "completed", total_processed |-> total_after - total_before,
        errors |-> 0]

\* What main() of main.py returns: it has no return statement.
MainResult == [dict |-> FALSE, status |-> "", processed |-> 0, errors |-> 0]

\* AvitoTelegramBot.show_parser_status: the lines of the 'last run' section
\* (a line is its label, followed by the number it prints if it prints one);
\* last_run_text stays empty when no branch of the if/elif chain matches.
show_parser_status(b, db) ==
  LET lps == b.last_parsing_stats
  IN  [total_objects |-> get_total_objects(db, FALSE),
       last_run_text |->
         IF lps.status = "not_run"
         THEN << <<"Ne vypolnyalsya">>, <<"Obrabotano", 0>>, <<"Oshibok", 0>> >>
         ELSE IF lps.status = "success"
         THEN << <<"Uspeshno">>, <<"Obrabotano", lps.total_processed>>,
                 <<"Oshibok", lps.errors>> >>
         ELSE IF lps.status = "completed_no_stats"
         THEN << <<"Zavershen">>, <<"Obrabotano: dannye ne polucheny">>, <<"Oshibok", 0>> >>
         ELSE IF lps.status = "error"
         THEN << <<"S oshibkoj">>, <<"Obrabotano", lps.total_processed>>,
                 <<"Oshibok", lps.errors>> >>
         ELSE <<>>]

(* --------------------------- BrowserSession ---------------------------- *)
DefaultRetries == 3   \* safe_goto(url, max_retries = 3)

\* No safe_goto call has been made.  pc is "loop" while the for loop runs,
\* "returned" / "raised" once the call has ended; attempt is the loop
\* variable, log the outcomes of the attempts made, outer what the caller
\* goto_and_wait did with the result.
NoNav ==
  [pc |-> "idle", caller |-> "", max_retries |-> 0, attempt |-> 0, value |-> FALSE,
   exc |-> "", log |-> <<>>, outer |-> ""]

\* What one pass through the try block can meet: a page without a block
\* keyword in URL and title, a page with one, playwright's TimeoutError, any
\* other exception.
NavOutcomes == {"clean", "blocked", "timeout", "error"}

\* Mutant: the last attempt's exception is swallowed like the earlier ones.
safe_goto_attempt_swallow(nv, outcome) ==
  LET made == [nv EXCEPT !.attempt = @ + 1, !.log = Append(@, outcome)]
  IN  IF outcome = "clean" THEN [made EXCEPT !.pc = "returned", !.value = TRUE]
      ELSE made

\* One iteration of `for attempt in range(max_retries)` of safe_goto.
safe_goto_attempt(nv, outcome) ==
  LET made == [nv EXCEPT !.attempt = @ + 1, !.log = Append(@, outcome)]
  IN  IF outcome = "clean" THEN [made EXCEPT !.pc = "returned", !.value = TRUE]
      ELSE IF outcome = "blocked" THEN made
      ELSE IF nv.attempt < nv.max_retries - 1 THEN made
      ELSE [made EXCEPT !.pc = "raised", !.exc = outcome]

\* The for loop is exhausted: `return False`.
safe_goto_exhausted(nv) == [nv EXCEPT !.pc = "returned", !.value = FALSE]

\* goto_and_wait after its safe_goto call: an exception of safe_goto
\* propagates, False raises Exception, True goes on to the page checks, whose
\* own errors are caught.
goto_and_wait(nv) ==
  [nv EXCEPT !.outer = IF nv.pc = "raised" \/ ~nv.value THEN "raised" ELSE "loaded"]

(* ------------------------------ state ---------------------------------- *)
VARIABLES
  db,        \* the apartments table and its AUTOINCREMENT counter
  now,       \* the clock read by AvitoItem() (datetime.now())
  stats,     \* self.stats of the current AvitoProcessor
  upserted,  \* history: links for which a save_apartment has succeeded
  call,      \* the last call made: its arguments, what it saw, what it returned
  passes,    \* the parser threads the bot has started: where each pass stands
  bot,       \* the bot object: last_parsing_stats, _objects_before_parsing
  nav        \* the running BrowserSession.safe_goto call

vars == <<db, now, stats, upserted, call, passes, bot, nav>>

NoCall ==
  [op |-> "init", raised |-> FALSE, page |-> <<>>, items |-> <<>>, log |-> <<>>,
   parseRaised |-> FALSE, clean |-> FALSE, rerun |-> FALSE,
   statsBefore |-> ZeroStats, dbBefore |-> EmptyDb, item |-> AvitoItem(0),
   fault |-> FALSE, retBool |-> FALSE, retStats |-> ZeroStats, limit |-> 0,
   retList |-> <<>>, retInt |-> 0, fn |-> "", arg |-> <<>>, ret |-> <<>>]

\* A processor has just been constructed on a fresh database file.
Init ==
  /\ db = EmptyDb
  /\ now = 0
  /\ stats = ZeroStats
  /\ upserted = {}
  /\ passes = [p \in PassIds |-> NoPass]
  /\ bot = NewBot
  /\ nav = NoNav
  /\ call = NoCall

\* AvitoProcessor.__init__ (setup_avito_processor): a new processor on the
\* same database file.  A fault of init_database leaves the constructor as an
\* exception and the caller keeps the processor it had.
NewProcessor(fault) ==
  LET r == init_database(db, fault)
  IN  /\ stats' = IF r.raised THEN stats ELSE ZeroStats
      /\ db' = r.db
      /\ call' = [NoCall EXCEPT !.op = "new", !.raised = r.raised, !.fault = fault,
                                 !.statsBefore = stats, !.dbBefore = db]
      /\ UNCHANGED <<now, upserted, passes, bot, nav>>

\* Items a caller of save_apartment can hold: complete records (title and
\* link set) built at some earlier reading of the clock.
CallerItems ==
  {parse_single_item(c, t).item : c \in {d \in Cards : ~d.bad /\ d.title # "" /\ d.link # ""},
                                t \in 0..now}

\* A direct call database.save_apartment(item).
SaveApartment(item, fault) ==
  \E r \in {save_apartment(db, item, fault)} :
    /\ r.db.seq <= MaxId
    /\ db' = r.db
    /\ upserted' = IF ~r.raised /\ r.value THEN upserted \cup {item.link} ELSE upserted
    /\ call' = [NoCall EXCEPT !.op = "save_apartment", !.raised = r.raised,
                               !.item = item, !.fault = fault, !.retBool = r.value,
                               !.statsBefore = stats, !.dbBefore = db]
    /\ UNCHANGED <<now, stats, passes, bot, nav>>

\* A call processor.process_html(html, url): page is the markup, pfault and
\* faults the storage / library errors that occur during the call.
ProcessHtml(page, pfault, faults) ==
  /\ now + Len(page) <= MaxClock
  /\ UNCHANGED <<passes, bot, nav>>
  /\ \E r \in {process_html(stats, db, page, pfault, faults, now)} :
       /\ r.db.seq <= MaxId
       /\ r.stats.errors <= MaxErrors
       /\ db' = r.db
       /\ now' = IF pfault THEN now ELSE now + Len(page)
       /\ stats' = r.stats
       /\ upserted' = upserted \cup
                        {r.items[i].link : i \in {j \in DOMAIN r.log : r.log[j] = "new"}}
       /\ call' = [NoCall EXCEPT
                    !.op = "process_html", !.raised = r.raised, !.page = page,
                    !.items = r.items, !.log = r.log, !.parseRaised = r.parseRaised,
                    !.fault = pfault, !.retStats = r.stats,
                    !.clean = ~pfault /\ \A i \in DOMAIN faults : faults[i] = "none",
                    !.rerun = /\ call.op = "process_html"
                              /\ call.page = page
                              /\ call.clean
                              /\ call.dbBefore.rows = {}
                              /\ ~pfault
                              /\ \A i \in DOMAIN faults : faults[i] = "none",
                    !.statsBefore = stats, !.dbBefore = db]

\* A call processor.get_recent_items(limit).
GetRecentItems(limit, ord, fault) ==
  LET r == get_recent_items(db, limit, ord, fault)
  IN  /\ call' = [NoCall EXCEPT !.op = "get_recent_items", !.raised = r.raised,
                                 !.limit = limit, !.retList = r.value, !.fault = fault,
                                 !.statsBefore = stats, !.dbBefore = db]
      /\ UNCHANGED <<db, now, stats, upserted, passes, bot, nav>>

\* A call bot.get_total_objects().
GetTotalObjects(fault) ==
  /\ call' = [NoCall EXCEPT !.op = "get_total_objects", !.fault = fault,
                            !.retInt = get_total_objects(db, fault),
                            !.statsBefore = stats, !.dbBefore = db]
  /\ UNCHANGED <<db, now, stats, upserted, passes, bot, nav>>

\* The storage errors that can occur during a pass over the page: entry i is
\* the error that hits record i, "none" when its storage calls succeed or
\* are never made.
FaultSeqs(page, pfault) ==
  LET items == parse_html(page, pfault, now).items
  IN  {f \in [DOMAIN items -> RecFaults] :
         \E l \in {run_loop(items, f, 1, stats, db, <<>>)} :
           \A i \in DOMAIN f :
             f[i] # "none" =>
               /\ i <= Len(l.log)
               /\ l.log[i] = (IF f[i] = "exists" THEN "existsfault" ELSE "savefail")}

NoFaults(page) == [i \in DOMAIN parse_html(page, FALSE, now).items |-> "none"]

\* Passes of the processor, with every storage and library fault.
NextRun ==
  \/ \E fault \in BOOLEAN : NewProcessor(fault)
  \/ \E page \in {p \in Pages : now + Len(p) <= MaxClock}, pfault \in BOOLEAN :
       \E faults \in FaultSeqs(page, pfault) : ProcessHtml(page, pfault, faults)

SpecRun == Init /\ [][NextRun]_vars

\* The store under direct saves, fault-free passes and the read operations.
NextStore ==
  \/ \E item \in CallerItems, fault \in BOOLEAN : SaveApartment(item, fault)
  \/ \E page \in {p \in StorePages : now + Len(p) <= MaxClock} :
       ProcessHtml(page, FALSE, NoFaults(page))
  \/ \E limit \in 0..MaxLimit, fault \in BOOLEAN :
       \E ord \in OrderByParsedDateDesc(db.rows) : GetRecentItems(limit, ord, fault)
  \/ \E fault \in BOOLEAN : GetTotalObjects(fault)

SpecStore == Init /\ [][NextStore]_vars

(* ------------------- the extractors on their inputs -------------------- *)
MaxOver   == 2   \* characters of a description text beyond DescLimit
MaxSlides == 4   \* carousel elements of one card
MaxOthers == 4   \* img elements of one card outside the carousel

Range(f) == {f[x] : x \in DOMAIN f}

\* Texts of price elements: "2 500 <rouble sign>" with runs of whitespace
\* around and inside, "5 RUB" in capitals, "ru b", "Cena po zaprosu" (price
\* on request), a blank text and an empty one.
PriceTexts ==
  { <<" ", "2", "nbsp", " ", "5", "0", "0", " ", "RUB_SIGN", "\n">>,
    <<"5", "\t", "R", "U", "B">>,
    <<"r", "u", " ", "b">>,
    <<"C", "e", "n", "a", " ", "p", "o", " ", "z", "a", "p", "r", "o", "s", "u">>,
    <<" ">>,
    <<>> }

PriceInputs == [Range(price_selectors) -> {NoElement} \cup {Element(t) : t \in PriceTexts}]

\* Description texts: n characters with 0 or 1 blanks before and after, for
\* the lengths at both ends of the range and around the limit.
DescBody(n) == [i \in 1..n |-> IF i % 3 = 0 THEN "b" ELSE "a"]
DescPad(n) == [i \in 1..n |-> " "]
DescTexts ==
  {DescPad(l) \o DescBody(n) \o DescPad(r) :
     l \in 0..1, r \in 0..1, n \in {0, 1} \cup ((DescLimit - 1)..(DescLimit + MaxOver))}

DescInputs ==
  {[sel \in Range(description_selectors) |->
      IF sel = description_selectors[k] THEN Element(t) ELSE o[sel]] :
     k \in DOMAIN description_selectors, t \in DescTexts,
     o \in [Range(description_selectors) ->
              {NoElement, Element(<<" ">>), Element(<<"z">>)}]}

\* Image addresses: absolute https and http, protocol-relative (the same
\* image as the absolute https one), root-relative, relative, and an
\* absolute one on another host.
UrlAbs   == Https \o <<"/", "/", "avito.st", "/", "a">>
UrlHttp  == <<"h", "t", "t", "p", ":", "/", "/", "avito.st", "/", "d">>
UrlProto == <<"/", "/", "avito.st", "/", "a">>
UrlRoot  == <<"/", "avito.st", "/", "b">>
UrlRel   == <<"avito.st", "/", "c">>
UrlOther == Https \o <<"/", "/", "x", "/", "e">>

Slides ==
  { Slide({carousel_selectors[1]}, <<>>, Img(UrlAbs, <<>>)),
    Slide({carousel_selectors[1]}, <<>>, Img(UrlProto, <<>>)),
    Slide({carousel_selectors[3]}, <<>>, Img(UrlRoot, <<>>)),
    Slide({carousel_selectors[1], carousel_selectors[3]}, <<>>, Img(<<>>, UrlHttp)),
    Slide({carousel_selectors[3]}, <<>>, Img(UrlRel, <<>>)),
    Slide({}, SliderImagePrefix \o UrlAbs, NoImg),
    Slide({carousel_selectors[1]}, SliderImagePrefix \o UrlProto, NoImg),
    Slide({}, SliderImagePrefix \o UrlRel, NoImg),
    Slide({carousel_selectors[1]}, SliderImagePrefix \o UrlAbs, Img(UrlAbs, <<>>)),
    Slide({carousel_selectors[3]}, <<>>, NoImg) }

OtherSrcs == {UrlProto, UrlAbs, UrlRoot, UrlOther}

\* Cards as parse_images sees them: a carousel alone, or at most one carousel
\* element and img elements outside it.
ImageInputs ==
  {[slides |-> sl, others |-> <<>>] : sl \in SeqsUpTo(Slides, MaxSlides)} \cup
  {[slides |-> sl, others |-> ot] : sl \in SeqsUpTo(Slides, 1), ot \in SeqsUpTo(OtherSrcs, MaxOthers)}

\* Card texts: a commission with its percentage, the phrase "% komissii"
\* alone ("bez % komissii", without commission), a deposit and included
\* utilities, and a text no pattern matches.
TextTax      == <<"Komissiya", " ", "5", "0", "%">>
TextNoGroup  == <<"bez", " ", "%", " ", "komissii">>
TextBail     == <<"zalog", " ", "5", " ", "0", "0", "0", " ", "RUB_SIGN", ".", " ",
                  "ZhKU", " ", "vklyucheny">>
TextPlain    == <<"w">>

OnlyFirst(selectors, element) ==
  [sel \in Range(selectors) |-> IF sel = selectors[1] THEN element ELSE NoElement]

\* The elements a document is made of.
DocElement(matches, title, link, text) ==
  ItemElement(matches, title, link, text,
              OnlyFirst(price_selectors, Element(<<"5", " ", "RUB_SIGN">>)),
              OnlyFirst(description_selectors, Element(<<"d">>)),
              <<Slide({carousel_selectors[1]}, <<>>, Img(UrlProto, <<>>))>>, <<>>)

DocElements ==
  { DocElement({item_selectors[1]}, "tA", "L1", TextTax),
    DocElement({item_selectors[1]}, "tB", "L2", TextNoGroup),
    DocElement({item_selectors[1]}, "", "L2", TextPlain),
    DocElement({item_selectors[2], item_selectors[3]}, "tB", "L2", TextBail),
    DocElement({item_selectors[2]}, "tA", "", TextPlain),
    DocElement({item_selectors[2]}, "tA", "L1", TextNoGroup),
    DocElement({item_selectors[4]}, "tA", "L1", TextPlain),
    DocElement({item_selectors[4], item_selectors[5]}, "", "L1", TextPlain),
    DocElement({item_selectors[5]}, "tB", "L2", TextTax),
    DocElement({}, "tA", "L1", TextPlain) }

Docs == SeqsUpTo(DocElements, MaxCards)

Input(fn, arg) == [NoCall EXCEPT !.op = "input", !.fn = fn, !.arg = arg]

\* An extractor is about to be applied to one input.
InitParse ==
  /\ db = EmptyDb
  /\ now = 0
  /\ stats = ZeroStats
  /\ upserted = {}
  /\ passes = [p \in PassIds |-> NoPass]
  /\ bot = NewBot
  /\ nav = NoNav
  /\ \/ \E x \in PriceInputs : call = Input("parse_price", x)
     \/ \E x \in DescInputs : call = Input("parse_description", x)
     \/ \E x \in ImageInputs : call = Input("parse_images", x)
     \/ \E x \in Docs : call = Input("parse_html", x)

ParsePrice ==
  /\ call.op = "input" /\ call.fn = "parse_price"
  /\ call' = [call EXCEPT !.op = "parse_price", !.ret = parse_price(call.arg, 1)]
  /\ UNCHANGED <<db, now, stats, upserted, passes, bot, nav>>

ParseDescription ==
  /\ call.op = "input" /\ call.fn = "parse_description"
  /\ call' = [call EXCEPT !.op = "parse_description", !.ret = parse_description(call.arg, 1)]
  /\ UNCHANGED <<db, now, stats, upserted, passes, bot, nav>>

ParseImages ==
  /\ call.op = "input" /\ call.fn = "parse_images"
  /\ call' = [call EXCEPT !.op = "parse_images", !.ret = parse_images(call.arg)]
  /\ UNCHANGED <<db, now, stats, upserted, passes, bot, nav>>

\* parser.parse_html(html) on a document that the library parses.
ParseHtml ==
  /\ call.op = "input" /\ call.fn = "parse_html"
  /\ now + Len(call.arg) <= MaxClock
  /\ \E r \in {parse_html_doc(call.arg, FALSE, now)} :
       /\ call' = [call EXCEPT !.op = "parse_html", !.raised = r.raised, !.ret = r.items]
       /\ now' = now + Len(item_elements(call.arg, 1))
  /\ UNCHANGED <<db, stats, upserted, passes, bot, nav>>

NextParse == ParsePrice \/ ParseDescription \/ ParseImages \/ ParseHtml

SpecParse == InitParse /\ [][NextParse]_vars

(* ---------------------- the bot and its parser threads ----------------- *)
\* What a started thread meets before process_html: main() fetches the page
\* and hands it over ("fetched"), main() catches an exception of the browser
\* and returns ("caught"), or an exception reaches run_parser ("raised").
BeginOutcomes == {"fetched", "caught", "raised"}

ErrorStats == [status |-> "error", total_processed |-> 0, errors |-> 1]

\* AvitoTelegramBot.start_parser: records the row count and starts the thread.
StartParser(p) ==
  /\ passes[p].pc = "idle"
  /\ bot' = [bot EXCEPT !.objects_before_parsing = get_total_objects(db, FALSE)]
  /\ passes' = [passes EXCEPT ![p].pc = "started"]
  /\ UNCHANGED <<db, now, stats, upserted, call, nav>>

\* run_parser up to the loop of process_html: the import of main, the fetch,
\* setup_avito_processor and parse_html.
PassBegin(p, page, outcome) ==
  /\ passes[p].pc = "started"
  /\ \E r \in {parse_html(page, FALSE, now)} :
       /\ passes' =
            [passes EXCEPT ![p] =
               IF outcome = "raised" THEN [@ EXCEPT !.pc = "done"]
               ELSE IF outcome = "caught" THEN [@ EXCEPT !.pc = "finish"]
               ELSE [pc |-> IF r.items = <<>> THEN "finish" ELSE "exists",
                     page |-> page, items |-> r.items, i |-> 1, stats |-> ZeroStats,
                     alone |-> \A q \in PassIds \ {p} :
                                  passes[q].pc \notin {"exists", "upsert"}]]
       /\ now' = IF outcome = "fetched" THEN now + Len(page) ELSE now
  /\ bot' = IF outcome = "raised" THEN [bot EXCEPT !.last_parsing_stats = ErrorStats]
            ELSE bot
  /\ UNCHANGED <<db, stats, upserted, call, nav>>

\* A thread runs its apartment_exists call.
PassExists(p) ==
  /\ passes[p].pc = "exists"
  /\ passes' = [passes EXCEPT ![p] = pass_exists(@, db)]
  /\ UNCHANGED <<db, now, stats, upserted, call, bot, nav>>

\* A thread runs its save_apartment call.
PassUpsert(p) ==
  /\ passes[p].pc = "upsert"
  /\ \E r \in {pass_upsert(passes[p], db)} :
       /\ passes' = [passes EXCEPT ![p] = r.pass]
       /\ db' = r.db
       /\ upserted' = IF r.pass.stats.new_items > passes[p].stats.new_items
                      THEN upserted \cup {passes[p].items[passes[p].i].link}
                      ELSE upserted
  /\ UNCHANGED <<now, stats, call, bot, nav>>

\* run_parser after main() has returned: it stores the statistics of the run
\* and edits the message; fault is an exception in that block (the Telegram
\* call failing), handled by `except Exception`, which stores the error
\* statistics.
PassFinish(p, fault) ==
  /\ passes[p].pc = "finish"
  /\ passes' = [passes EXCEPT ![p].pc = "done"]
  /\ bot' = [bot EXCEPT !.last_parsing_stats =
               IF fault THEN ErrorStats
               ELSE run_parser_result(MainResult, bot.objects_before_parsing,
                                      get_total_objects(db, FALSE))]
  /\ UNCHANGED <<db, now, stats, upserted, call, nav>>

\* The status button: bot.show_parser_status(call).
ShowParserStatus ==
  /\ \E r \in {show_parser_status(bot, db)} :
       call' = [NoCall EXCEPT !.op = "show_parser_status", !.retInt = r.total_objects,
                                !.retList = r.last_run_text]
  /\ UNCHANGED <<db, now, stats, upserted, passes, bot, nav>>

\* The parser threads alone: every interleaving of their storage calls.
NextPasses ==
  \/ \E p \in PassIds : StartParser(p)
  \/ \E p \in PassIds, page \in StorePages, outcome \in BeginOutcomes :
       PassBegin(p, page, outcome)
  \/ \E p \in PassIds : PassExists(p)
  \/ \E p \in PassIds : PassUpsert(p)

SpecPasses == Init /\ [][NextPasses]_vars

\* Pages of at most one card: the status of the bot depends on a pass only
\* through its end and the growth of the row count.
BotPages == {page \in StorePages : Len(page) <= 1}

\* The bot with its buttons and the threads up to their end.
NextBot ==
  \/ \E p \in PassIds : StartParser(p)
  \/ \E p \in PassIds, page \in BotPages, outcome \in BeginOutcomes :
       PassBegin(p, page, outcome)
  \/ \E p \in PassIds : PassExists(p)
  \/ \E p \in PassIds : PassUpsert(p)
  \/ \E p \in PassIds, fault \in BOOLEAN : PassFinish(p, fault)
  \/ ShowParserStatus

SpecBot == Init /\ [][NextBot]_vars

(* ------------------------------ safe_goto ------------------------------ *)
MaxRetries == 3   \* largest max_retries a caller passes

\* A call of safe_goto: from goto_and_wait (which passes the default
\* max_retries) or directly with a max_retries of the caller's choice.
SafeGoto(caller, max_retries) ==
  /\ nav.pc = "idle"
  /\ caller = "goto_and_wait" => max_retries = DefaultRetries
  /\ nav' = [NoNav EXCEPT !.pc = "loop", !.caller = caller, !.max_retries = max_retries]
  /\ UNCHANGED <<db, now, stats, upserted, call, passes, bot>>

\* The next navigation attempt.
Attempt(outcome) ==
  /\ nav.pc = "loop"
  /\ nav.attempt < nav.max_retries
  /\ nav' = safe_goto_attempt(nav, outcome)
  /\ UNCHANGED <<db, now, stats, upserted, call, passes, bot>>

\* The loop ends without a return or raise from its body.
Exhausted ==
  /\ nav.pc = "loop"
  /\ nav.attempt >= nav.max_retries
  /\ nav' = safe_goto_exhausted(nav)
  /\ UNCHANGED <<db, now, stats, upserted, call, passes, bot>>

\* goto_and_wait resumes after its safe_goto call has ended.
GotoAndWait ==
  /\ nav.pc \in {"returned", "raised"}
  /\ nav.caller = "goto_and_wait"
  /\ nav.outer = ""
  /\ nav' = goto_and_wait(nav)
  /\ UNCHANGED <<db, now, stats, upserted, call, passes, bot>>

NavSteps ==
  \/ \E outcome \in NavOutcomes : Attempt(outcome)
  \/ Exhausted
  \/ GotoAndWait

NextNav ==
  \/ \E caller \in {"goto_and_wait", "direct"}, max_retries \in 0..MaxRetries :
       SafeGoto(caller, max_retries)
  \/ NavSteps

\* Every attempt ends: page.goto has a timeout and the sleeps are finite, so
\* a call that can take a step takes it.
SpecNav == Init /\ [][NextNav]_vars /\ WF_vars(NavSteps)

TypeOK ==
  /\ db.seq \in 0..MaxId
  /\ now \in 0..MaxClock
  /\ \A r \in db.rows : r.id \in 1..db.seq /\ r.link \in Links

(* ------------------------------ claims --------------------------------- *)
CountTag(log, tag) == Cardinality({i \in DOMAIN log : log[i] = tag})
ErrorTags == {"nolink", "savefail", "existsfault", "savefault"}
CountErrors(log) == Cardinality({i \in DOMAIN log : log[i] \in ErrorTags})
LinksOf(rows) == {r.link : r \in rows}
IsRunStats(st) ==
  /\ DOMAIN st = {"total_processed", "new_items", "existing_items", "errors"}
  /\ \A k \in DOMAIN st : st[k] \in Nat

\* C1 (as claimed): the second of two process_html calls in sequence on
\* identical markup, the first on an empty store and neither with a fault,
\* returns newItems = 0 and existingItems = totalProcessed minus the records
\* rejected for an empty link (without faults these are all the errors the
\* returned stats report), and adds no row.
C1_SecondRunAllExisting ==
  (call.op = "process_html" /\ call.rerun) =>
    /\ call.retStats.new_items = 0
    /\ call.retStats.existing_items =
         call.retStats.total_processed - call.retStats.errors
    /\ db.rows = call.dbBefore.rows

\* C2 (as claimed): the four counters returned by a process_html call count
\* only the records handled by that call.
C2_StatsCountThisCall ==
  call.op = "process_html" =>
    /\ call.retStats.total_processed = Len(call.log)
    /\ call.retStats.new_items = CountTag(call.log, "new")
    /\ call.retStats.existing_items = CountTag(call.log, "existing")
    /\ call.retStats.errors =
         CountErrors(call.log) + (IF call.parseRaised THEN 1 ELSE 0)

\* C3: a successful save_apartment of an item whose link is already stored
\* leaves exactly one row with that link, and every data column of the row
\* holds the new item's value.
C3_UpsertFullReplace ==
  (/\ call.op = "save_apartment"
   /\ call.retBool
   /\ call.item.link \in LinksOf(call.dbBefore.rows)) =>
    /\ Cardinality({r \in db.rows : r.link = call.item.link}) = 1
    /\ \A r \in db.rows : r.link = call.item.link =>
         /\ r.title = call.item.title
         /\ r.price = call.item.price
         /\ r.bail = call.item.bail
         /\ r.tax = call.item.tax
         /\ r.services = call.item.services
         /\ r.address = call.item.address
         /\ r.desc = call.item.desc
         /\ JsonLoads(r.images) = call.item.images

\* C3 witness: record B has replaced a stored record A with the same link and
\* a different title.
C3_Witness ==
  /\ call.op = "save_apartment"
  /\ call.retBool
  /\ \E old \in call.dbBefore.rows :
       old.link = call.item.link /\ old.title # call.item.title

\* C4: no two rows share a link, the number of rows is the number of distinct
\* links upserted so far, and that is what count() reports.
C4_LinkIsKey ==
  /\ \A r1, r2 \in db.rows : r1.link = r2.link => r1 = r2
  /\ LinksOf(db.rows) = upserted
  /\ Cardinality(db.rows) = Cardinality(upserted)
  /\ (call.op = "get_total_objects" /\ ~call.fault) =>
       call.retInt = Cardinality(upserted)

\* C4 witness: count() has reported 2 after two distinct links were upserted,
\* one of them more than once.
C4_Witness ==
  /\ call.op = "get_total_objects"
  /\ call.retInt = 2
  /\ Cardinality(upserted) = 2
  /\ db.seq > 2

\* Links the store holds when the loop reaches record i of the call: those
\* present before the call and those of the earlier records saved by it.
KnownAt(i) ==
  LinksOf(call.dbBefore.rows) \cup
    {call.items[j].link : j \in {k \in 1..(i - 1) : call.log[k] = "new"}}

\* C5 (amended): process_html handles the records in page order; each handled
\* record adds one to totalProcessed and to exactly one other counter, chosen
\* by its branch (empty link: errors; link present: existingItems; upsert
\* succeeded: newItems; upsert failed or existence check raised: errors), and
\* a raising parse_html adds one error without a record.  So a call raises
\* newItems + existingItems + errors by as much as totalProcessed, plus one
\* if parse_html raised.
C5_RunAccounting ==
  call.op = "process_html" =>
    LET d(k) == call.retStats[k] - call.statsBefore[k]
    IN  /\ Len(call.log) <= Len(call.items)
        /\ d("total_processed") = Len(call.log)
        /\ d("new_items") = CountTag(call.log, "new")
        /\ d("existing_items") = CountTag(call.log, "existing")
        /\ d("errors") = CountErrors(call.log) + (IF call.parseRaised THEN 1 ELSE 0)
        /\ d("new_items") + d("existing_items") + d("errors") =
             d("total_processed") + (IF call.parseRaised THEN 1 ELSE 0)
        /\ \A i \in DOMAIN call.log :
             /\ call.log[i] \in {"nolink", "existing", "new", "savefail", "existsfault"}
             /\ call.log[i] = "nolink" <=> call.items[i].link = ""
             /\ call.log[i] = "existing" => call.items[i].link \in KnownAt(i)
             /\ call.log[i] \in {"new", "savefail"} => call.items[i].link \notin KnownAt(i)
             /\ call.log[i] = "new" => call.items[i].link \in LinksOf(db.rows)
             /\ call.log[i] = "existsfault" => i = Len(call.log)

\* C5 witness: one pass has saved a record and counted a failed upsert.
C5_Witness ==
  /\ call.op = "process_html"
  /\ call.log = <<"new", "savefail">>

\* C5 (as claimed): the stats returned by any run satisfy
\* totalProcessed = newItems + existingItems + errors.
C5_TotalIsSum ==
  call.op = "process_html" =>
    call.retStats.total_processed =
      call.retStats.new_items + call.retStats.existing_items + call.retStats.errors

\* C6: process_html never raises and returns the RunStats, whatever happens
\* to a record or to the extraction; the constructor raises exactly when
\* init_database fails, and then nothing has been done.
C6_OnlyInitRaises ==
  /\ call.op = "process_html" =>
       /\ ~call.raised
       /\ IsRunStats(call.retStats)
       /\ call.retStats = stats
  /\ call.op = "new" =>
       /\ call.raised <=> call.fault
       /\ call.raised => stats = call.statsBefore /\ db = call.dbBefore

\* C6 witness: the existence check raised inside a pass that had already
\* saved a record.
C6_Witness ==
  /\ call.op = "process_html"
  /\ call.log = <<"new", "existsfault">>

\* C7 (as claimed): a storage error on record i, in the existence check or in
\* the upsert, counts one error and every later record of the page is still
\* processed.
C7_BatchContinues ==
  (call.op = "process_html" /\ ~call.parseRaised) =>
    /\ Len(call.log) = Len(call.items)
    /\ call.retStats.errors - call.statsBefore.errors = CountErrors(call.log)

\* C8: save_apartment never raises, returns False exactly when a storage
\* error occurs, and then leaves the table as it was.
C8_SaveReportsFalse ==
  call.op = "save_apartment" =>
    /\ ~call.raised
    /\ call.retBool <=> ~call.fault
    /\ ~call.retBool => db = call.dbBefore

\* C8 witness: a save_apartment on a non-empty table has returned False.
C8_Witness ==
  /\ call.op = "save_apartment"
  /\ call.fault
  /\ ~call.retBool
  /\ call.dbBefore.rows # {}

RowOf(link) == CHOOSE r \in db.rows : r.link = link

\* C9 (as claimed): get_recent_items(limit) returns at most limit summaries,
\* a row inserted later (larger id) before a row inserted earlier.
C9_RecentByInsertion ==
  (call.op = "get_recent_items" /\ ~call.raised) =>
    /\ Len(call.retList) <= call.limit
    /\ \A i, j \in DOMAIN call.retList :
         i < j => RowOf(call.retList[i].link).id > RowOf(call.retList[j].link).id

\* The cards of a page that parse_html turns into records.
GoodCards(page) == SelectSeq(page, LAMBDA c : ~c.bad /\ c.title # "")

\* C10 (amended): parse_html absorbs every fault raised while extracting a
\* card or a field (the card is left out) and returns the records of the
\* other titled cards in page order; it raises exactly when building the
\* document tree or selecting the cards raises.
C10_CardFaultsAbsorbed ==
  call.op = "process_html" =>
    /\ call.parseRaised <=> call.fault
    /\ ~call.parseRaised =>
         /\ Len(call.items) = Len(GoodCards(call.page))
         /\ \A i \in DOMAIN call.items :
              /\ call.items[i].link = GoodCards(call.page)[i].link
              /\ call.items[i].title = GoodCards(call.page)[i].title

\* C10 witness: a page with a card whose extraction raises and a card that is
\* extracted has been parsed without a raise.
C10_Witness ==
  /\ call.op = "process_html"
  /\ ~call.parseRaised
  /\ \E i \in DOMAIN call.page : call.page[i].bad
  /\ Len(call.items) = 1

\* C10 (as claimed): parse_html never raises.
C10_ParseNeverRaises ==
  call.op = "process_html" => ~call.parseRaised

\* C11 (amended): every record parse_html returns has a non-empty title; a
\* record with an empty link is returned too, and it is process_html that
\* rejects it: the record counts as an error and no row is stored for it.
C11_TitleRequiredLinkCheckedInRun ==
  call.op = "process_html" =>
    /\ \A i \in DOMAIN call.items : call.items[i].title # ""
    /\ \A i \in DOMAIN call.log : call.items[i].link = "" => call.log[i] = "nolink"
    /\ \A r \in db.rows : r.link # "" /\ r.title # ""

\* C11 witness: a page with an untitled card and a titled card without link
\* has been processed; the first is not among the records, the second is and
\* was counted as an error.
C11_Witness ==
  /\ call.op = "process_html"
  /\ \E i \in DOMAIN call.page : call.page[i].title = "" /\ ~call.page[i].bad
  /\ \E i \in DOMAIN call.log : call.items[i].link = "" /\ call.log[i] = "nolink"

\* C11 (as claimed): every record parse_html returns has a non-empty title and
\* a non-empty link.
C11_ExtractorRejectsNoLink ==
  call.op = "process_html" =>
    \A i \in DOMAIN call.items : call.items[i].title # "" /\ call.items[i].link # ""

\* The first record of the call that carries the link.
FirstWithLink(link) ==
  call.items[MinOf({i \in DOMAIN call.items : call.items[i].link = link})]

SameFields(r, item) ==
  /\ r.title = item.title /\ r.price = item.price /\ r.bail = item.bail
  /\ r.tax = item.tax /\ r.services = item.services /\ r.address = item.address
  /\ r.desc = item.desc /\ JsonLoads(r.images) = item.images

\* Two records of the call share a link the store did not hold, and differ.
SameLinkTwice ==
  /\ call.op = "process_html"
  /\ \E i, j \in DOMAIN call.items :
       /\ i < j
       /\ call.items[i].link = call.items[j].link
       /\ call.items[i].link \notin LinksOf(call.dbBefore.rows)
       /\ call.items[i].title # call.items[j].title

\* C16 (amended): of the records of one page that share a link not yet
\* stored, the first is persisted and the later ones count as existing: after
\* the pass the single row of the link carries the fields of the first.
C16_EarlierCardKept ==
  (call.op = "process_html" /\ call.clean) =>
    \A i \in DOMAIN call.items :
      (call.items[i].link # "" /\ call.items[i].link \notin LinksOf(call.dbBefore.rows)) =>
        /\ Cardinality({r \in db.rows : r.link = call.items[i].link}) = 1
        /\ SameFields(RowOf(call.items[i].link), FirstWithLink(call.items[i].link))
        /\ call.items[i] # FirstWithLink(call.items[i].link) => call.log[i] = "existing"

\* C16 witness: a pass over a page with two different cards of one new link.
C16_Witness == SameLinkTwice /\ call.clean

\* C16 (as claimed): after a pass over a page with cards c1 then c2 of the same
\* new link, the row of the link carries the fields of the later card c2.
C16_LaterCardWins ==
  (call.op = "process_html" /\ call.clean) =>
    \A i, j \in DOMAIN call.items :
      (/\ i < j
       /\ call.items[i].link = call.items[j].link
       /\ call.items[i].link # ""
       /\ call.items[i].link \notin LinksOf(call.dbBefore.rows)
       /\ \A k \in DOMAIN call.items : k > j => call.items[k].link # call.items[j].link) =>
        SameFields(RowOf(call.items[j].link), call.items[j])

\* C12: the list parse_images returns has at most 3 entries, whatever the
\* carousel and the img elements of the card and whichever branch supplies
\* the entries.
C12_ImagesAtMostThree ==
  call.op = "parse_images" => Len(call.ret) <= 3

\* C12 witness: a card whose carousel has more than three elements, all
\* different and each with an inner img or a data-marker, has yielded three
\* images.
C12_Witness ==
  /\ call.op = "parse_images"
  /\ Len(call.ret) = 3
  /\ Len(call.arg.slides) > 3
  /\ \A i, j \in DOMAIN call.arg.slides : i # j => call.arg.slides[i] # call.arg.slides[j]
  /\ \A i \in DOMAIN call.arg.slides :
       call.arg.slides[i].img.found \/ call.arg.slides[i].marker # <<>>

IsAbsoluteHttp(url) ==
  \/ StartsWith(url, <<"h", "t", "t", "p", ":", "/", "/">>)
  \/ StartsWith(url, <<"h", "t", "t", "p", "s", ":", "/", "/">>)

\* C13 (as claimed): every entry of the list parse_images returns is an
\* absolute http(s) URL, whether it comes from an inner img, from a
\* data-marker attribute or from the fallback scan.
C13_ImagesAbsoluteHttp ==
  call.op = "parse_images" =>
    \A i \in DOMAIN call.ret : IsAbsoluteHttp(call.ret[i])

\* C14 (as claimed): no two positions of the list parse_images returns hold
\* the same string.
C14_ImagesNoDuplicates ==
  call.op = "parse_images" =>
    \A i, j \in DOMAIN call.ret : i # j => call.ret[i] # call.ret[j]

NonBlank(text) == \E i \in DOMAIN text : text[i] \notin White

\* The text between its first and its last non-blank character.
Trimmed(text) ==
  IF NonBlank(text)
  THEN LET black == {i \in DOMAIN text : text[i] \notin White}
       IN  SubSeq(text, MinOf(black), CHOOSE i \in black : \A j \in black : j <= i)
  ELSE <<>>

\* The description's source text: that of the element of the first selector,
\* in list order, whose element has a non-blank text.
DescSource ==
  LET with == {k \in DOMAIN description_selectors :
                 /\ call.arg[description_selectors[k]].found
                 /\ NonBlank(call.arg[description_selectors[k]].text)}
  IN  IF with = {} THEN <<>>
      ELSE Trimmed(call.arg[description_selectors[MinOf(with)]].text)

\* C15: the description has at most 503 characters; a source text longer than
\* 500 characters gives its first 500 characters followed by "...", a source
\* text of 500 characters or fewer is returned unchanged.
C15_DescriptionTruncated ==
  call.op = "parse_description" =>
    \A source \in {DescSource} :
      /\ Len(call.ret) <= 503
      /\ Len(source) > 500 =>
           /\ Len(call.ret) = 503
           /\ \A i \in 1..500 : call.ret[i] = source[i]
           /\ \A i \in 501..503 : call.ret[i] = "."
      /\ Len(source) <= 500 => call.ret = source

\* C15 witness: a text of more than 501 characters, found by a selector other
\* than the first, has been cut to 503.
C15_Witness ==
  /\ call.op = "parse_description"
  /\ ~call.arg[description_selectors[1]].found
  /\ Len(DescSource) > 501
  /\ Len(call.ret) = 503

HasCurrency(text) ==
  \/ \E i \in DOMAIN text : text[i] = "RUB_SIGN"
  \/ \E i \in 1..(Len(text) - 2) :
       /\ LowerChar(text[i]) = "r"
       /\ LowerChar(text[i + 1]) = "u"
       /\ LowerChar(text[i + 2]) = "b"

\* The maximal runs of non-blank characters of a text, in order.
RECURSIVE Words(_, _, _)
Words(text, word, acc) ==
  IF text = <<>> THEN (IF word = <<>> THEN acc ELSE Append(acc, word))
  ELSE IF Head(text) \in White
       THEN Words(Tail(text), <<>>, IF word = <<>> THEN acc ELSE Append(acc, word))
       ELSE Words(Tail(text), Append(word, Head(text)), acc)

\* No blank at either end, and every blank a single space between two words.
SingleSpaced(text) ==
  \A i \in DOMAIN text :
    text[i] \in White =>
      /\ text[i] = " "
      /\ 1 < i /\ i < Len(text)
      /\ text[i + 1] \notin White

\* C20: parse_price returns the text, with every run of whitespace collapsed
\* to one space, of the first selector's element (in list order) that
\* carries a currency marker; an element without marker is passed over, and
\* without any marked element the price is empty.
C20_PriceAccepted ==
  call.op = "parse_price" =>
    LET marked == {k \in DOMAIN price_selectors :
                     /\ call.arg[price_selectors[k]].found
                     /\ HasCurrency(call.arg[price_selectors[k]].text)}
    IN  IF marked = {} THEN call.ret = <<>>
        ELSE /\ SingleSpaced(call.ret)
             /\ Words(call.ret, <<>>, <<>>) =
                  Words(call.arg[price_selectors[MinOf(marked)]].text, <<>>, <<>>)

\* C20 witness: the first selector finds "Cena po zaprosu", the second a price
\* in roubles with runs of whitespace; the second, collapsed, is the price.
C20_Witness ==
  /\ call.op = "parse_price"
  /\ call.arg[price_selectors[1]] =
       Element(<<"C", "e", "n", "a", " ", "p", "o", " ", "z", "a", "p", "r", "o", "s", "u">>)
  /\ call.arg[price_selectors[2]].found
  /\ call.ret = <<"2", " ", "5", "0", "0", " ", "RUB_SIGN">>

\* The field values of a record, without the time of its construction.
FieldsOf(item) ==
  [title |-> item.title, price |-> item.price, bail |-> item.bail, tax |-> item.tax,
   services |-> item.services, address |-> item.address, desc |-> item.desc,
   images |-> item.images, link |-> item.link]

\* C17 (as claimed): a fault in the extraction of one field of a card leaves
\* that field empty and the card, if titled, among the records with its other
\* fields extracted; so every titled card of the selector is returned, one
\* whose text matches only "% komissii" with an empty tax.
C17_FieldFaultKeepsCard ==
  call.op = "parse_html" =>
    \A titled \in {SelectSeq(item_elements(call.arg, 1), LAMBDA el : el.title # "")} :
      /\ Len(call.ret) = Len(titled)
      /\ \A i \in DOMAIN titled :
           /\ call.ret[i].title = titled[i].title
           /\ call.ret[i].link = titled[i].link
           /\ call.ret[i].price = parse_price(titled[i].price, 1)
           /\ call.ret[i].desc = parse_description(titled[i].desc, 1)
           /\ call.ret[i].images = parse_images(titled[i])
           /\ parse_tax(titled[i].text).raised => call.ret[i].tax = <<>>

\* C18: a card whose extraction raises is left out and does not end the page:
\* parse_html does not raise and returns, in page order, exactly the records
\* of the other titled cards of the selector, each with its fields.
C18_BadCardSkipped ==
  call.op = "parse_html" =>
    \A good \in {SelectSeq([i \in DOMAIN item_elements(call.arg, 1) |->
                              extract_fields(item_elements(call.arg, 1)[i])],
                           LAMBDA c : ~c.bad /\ c.title # "")} :
      /\ ~call.raised
      /\ Len(call.ret) = Len(good)
      /\ \A i \in DOMAIN good :
           /\ FieldsOf(call.ret[i]) = FieldsOf(good[i])
           /\ \A j \in DOMAIN good : i < j => call.ret[i].parsed_date < call.ret[j].parsed_date

\* C18 witness: the first card of the page raised ("% komissii") and the
\* second, the last, was extracted.
C18_Witness ==
  /\ call.op = "parse_html"
  /\ Len(call.arg) > 1
  /\ item_elements(call.arg, 1) = call.arg
  /\ call.arg[1].title # "" /\ parse_tax(call.arg[1].text).raised
  /\ Len(call.ret) = 1
  /\ call.ret[1].link = call.arg[Len(call.arg)].link
  /\ call.ret[1].tax = parse_tax(call.arg[Len(call.arg)].text).value
  /\ call.ret[1].tax # <<>>

\* The selectors of the list that match an element of the document.
MatchingSelectors ==
  {k \in DOMAIN item_selectors :
     \E i \in DOMAIN call.arg : item_selectors[k] \in call.arg[i].matches}

\* C19: parse_html extracts the cards of one selector only, the first of the
\* list that matches an element, even when none of its cards gives a record;
\* when no selector matches, the result is empty.
C19_FirstMatchingSelectorOnly ==
  call.op = "parse_html" =>
    IF MatchingSelectors = {} THEN call.ret = <<>>
    ELSE \A kept \in {SelectSeq(call.arg,
                                LAMBDA el : /\ item_selectors[MinOf(MatchingSelectors)] \in el.matches
                                            /\ el.title # ""
                                            /\ ~extract_fields(el).bad)} :
           /\ Len(call.ret) = Len(kept)
           /\ \A i \in DOMAIN kept :
                call.ret[i].title = kept[i].title /\ call.ret[i].link = kept[i].link

\* C19 witness: the only card of the first matching selector has no title, a
\* card of a later selector is complete, and the result is empty.
C19_Witness ==
  /\ call.op = "parse_html"
  /\ call.ret = <<>>
  /\ MatchingSelectors # {}
  /\ \E i, j \in DOMAIN call.arg :
       /\ item_selectors[MinOf(MatchingSelectors)] \in call.arg[i].matches
       /\ call.arg[i].title = ""
       /\ item_selectors[MinOf(MatchingSelectors)] \notin call.arg[j].matches
       /\ call.arg[j].matches # {}
       /\ call.arg[j].title # "" /\ call.arg[j].link # ""
       /\ ~extract_fields(call.arg[j]).bad

\* The rows of the table that carry the link.
RowsOf(rows, link) == {r \in rows : r.link = link}

\* C21: a record of a process_html call whose link the store already held
\* before the call causes no write: the row of that link (id and every
\* column) is the same after the call as before it, whatever fields the
\* record carries and whatever faults hit the call.
C21_KnownLinkRowUntouched ==
  call.op = "process_html" =>
    \A i \in DOMAIN call.log :
      call.items[i].link \in LinksOf(call.dbBefore.rows) =>
        /\ call.log[i] \in {"existing", "existsfault"}
        /\ RowsOf(db.rows, call.items[i].link) =
             RowsOf(call.dbBefore.rows, call.items[i].link)

\* C21 witness: a pass met a record of a stored link whose title differs from
\* the stored one and counted it as existing.
C21_Witness ==
  /\ call.op = "process_html"
  /\ \E i \in DOMAIN call.log :
       /\ call.log[i] = "existing"
       /\ \E r \in call.dbBefore.rows :
            r.link = call.items[i].link /\ r.title # call.items[i].title

\* process_html of the thread has returned (or was never reached).
Ended(p) == passes[p].pc \in {"finish", "done"}

SumNewItems == passes["p1"].stats.new_items + passes["p2"].stats.new_items

\* Links of the records the two passes handled.
PassLinks ==
  UNION {{passes[p].items[i].link : i \in DOMAIN passes[p].items} : p \in PassIds} \ {""}

\* Both passes have gone over the same, non-empty markup.
SameMarkupEnded ==
  /\ \A p \in PassIds : Ended(p)
  /\ passes["p1"].page = passes["p2"].page
  /\ passes["p1"].items # <<>>

JournalLimit == 5

\* C23: when save_apartment replaces the row of a link the store holds, the
\* new row has an id greater than every id handed out before, the old id no
\* longer resolves through get_object_by_id, and the row is the first entry
\* of the id-descending listing get_recent_objects.
C23_ReplacedRowGetsNewId ==
  (call.op = "save_apartment" /\ call.retBool) =>
    \A old \in RowsOf(call.dbBefore.rows, call.item.link) :
      \E new \in {RowOf(call.item.link)} :
        /\ new.id > call.dbBefore.seq
        /\ \A r \in call.dbBefore.rows : new.id > r.id
        /\ get_object_by_id(db, old.id, FALSE).none
        /\ ~get_object_by_id(db, new.id, FALSE).none
        /\ get_object_by_id(db, new.id, FALSE).object.link = call.item.link
        /\ \A limit \in 1..JournalLimit :
             get_recent_objects(db, 0, limit, FALSE)[1].id = new.id

\* C23 witness: a successful save_apartment has replaced a row while the
\* store holds another row as well.
C23_Witness ==
  /\ call.op = "save_apartment" /\ call.retBool
  /\ RowsOf(call.dbBefore.rows, call.item.link) # {}
  /\ Cardinality(db.rows) > 1

\* The status values the if/elif chain of show_parser_status handles.
HandledStatuses == {"not_run", "success", "completed_no_stats", "error"}

\* C24: last_parsing_stats['status'] is always one of the values that
\* show_parser_status handles, so the 'last run' section of a status message
\* is never empty, in particular after a parser thread has finished.
C24_StatusAlwaysRendered ==
  /\ bot.last_parsing_stats.status \in HandledStatuses
  /\ call.op = "show_parser_status" => call.retList # <<>>

NavEnded == nav.pc \in {"returned", "raised"}

\* The attempts before the last one that was made.
Earlier(log) == SubSeq(log, 1, Len(log) - 1)

\* What safe_goto has done so far agrees with the claim: never more than
\* max_retries attempts; True exactly at the first clean load; False when
\* max_retries attempts were made, none clean, the last one not raising; an
\* exception only from attempt max_retries; goto_and_wait raises on False.
SafeGotoOutcome ==
  /\ nav.attempt = Len(nav.log) /\ nav.attempt <= nav.max_retries
  /\ \A i \in DOMAIN Earlier(nav.log) : nav.log[i] # "clean"
  /\ nav.pc = "loop" => nav.log = <<>> \/ nav.log[Len(nav.log)] # "clean"
  /\ (nav.pc = "returned" /\ nav.value) =>
       nav.log # <<>> /\ nav.log[Len(nav.log)] = "clean"
  /\ (nav.pc = "returned" /\ ~nav.value) =>
       /\ nav.attempt = nav.max_retries
       /\ \A i \in DOMAIN nav.log : nav.log[i] # "clean"
       /\ nav.log # <<>> => nav.log[Len(nav.log)] = "blocked"
  /\ nav.pc = "raised" =>
       /\ nav.attempt = nav.max_retries
       /\ nav.log[Len(nav.log)] \in {"timeout", "error"}
       /\ nav.exc = nav.log[Len(nav.log)]
  /\ (NavEnded /\ nav.log # <<>> /\ nav.log[Len(nav.log)] = "clean") =>
       nav.pc = "returned" /\ nav.value
  /\ nav.outer # "" => (nav.outer = "raised" <=> (nav.pc = "raised" \/ ~nav.value))

\* C25: a safe_goto call ends, after at most max_retries attempts: with True
\* at the first clean load, with False when the attempts are used up and the
\* last did not raise, with the exception of the last attempt otherwise; and
\* goto_and_wait raises whenever safe_goto returned False.
C25_SafeGotoTerminates ==
  /\ []SafeGotoOutcome
  /\ (nav.pc = "loop") ~> NavEnded
  /\ (NavEnded /\ nav.caller = "goto_and_wait") ~> (nav.outer # "")

\* C25 witness: a goto_and_wait call whose safe_goto saw an exception, then
\* block pages up to the last attempt, returned False, and which then raised.
C25_Witness ==
  /\ nav.caller = "goto_and_wait"
  /\ nav.pc = "returned" /\ ~nav.value
  /\ nav.log = <<"error", "blocked", "blocked">>
  /\ nav.outer = "raised"

====
